---- MODULE Spec2Model ----
(***************************************************************************)
(* A model of brain-mcp: the DuckDB-backed two-tier conversation memory    *)
(* (src/src/storage.ts, class StorageManager), the consolidation cycle     *)
(* (src/src/consolidation.ts, class MemoryConsolidator) and the MCP tool   *)
(* handlers and cron callback of the server (second half of storage.ts).   *)
(*                                                                         *)
(* Time is the millisecond clock Date.now(); a local day is DayLen ticks   *)
(* long.  Table rows are records; a table is the set of its rows.  Row     *)
(* ids, which the code draws from Date.now() and Math.random(), are fresh  *)
(* numbers.  A session id `conv-${Date.now()}` is the clock value it was   *)
(* built from.                                                             *)
(***************************************************************************)
EXTENDS Integers, Sequences, FiniteSets, TLC

VARIABLES
  now,                    \* Date.now()
  storageUrl,             \* "file" (local database file) or "s3" (in-memory + remote parquet)
  apiKey,                 \* OPENAI_API_KEY ("" when not configured)
  enableConsolidation,    \* ENABLE_CONSOLIDATION
  conversations,          \* table conversations (local database)
  longTermMemory,         \* table long_term_memory (local database)
  remoteConversations,    \* conversations.parquet on the remote store
  remoteLongTermMemory,   \* long_term_memory.parquet on the remote store
  currentConversationId,  \* the server's module-level session id
  msgCount,               \* message rows inserted so far (fresh ids)
  ltmCount,               \* long-term rows inserted so far (fresh ids)
  pc,                     \* per cycle: where consolidate() is suspended
  sel,                    \* per cycle in flight: ids returned by getTodaysConversations
  selStart,               \* per cycle in flight: startTimestamp of getTodaysConversations
  markStart,              \* per cycle in flight: startTimestamp of markConversationsAsConsolidated
  markedCount,            \* per cycle in flight: the count markConversationsAsConsolidated will return
  result,                 \* per cycle: outcome of the last consolidate() ("none", "ok", "error")
  runs,                   \* consolidate() invocations so far
  cronDue,                \* the cron timer has reached a scheduled instant and its callback is due
  restarts,               \* process restarts so far
  syncFailures,           \* exports to the remote store that have thrown so far
  selCount,               \* history: per message id, the number of cycles that selected it
  anyFailure,             \* history: some step of some cycle has failed (throw or crash)
  crashedSel,             \* history: ids selected by a cycle that crashed between store and mark
  response,               \* the reply of the last read or clear request that was observed
  storeCalls              \* per store_memory call in flight: what it holds across its await

configVars == <<storageUrl, apiKey, enableConsolidation>>
tableVars  == <<conversations, longTermMemory>>
remoteVars == <<remoteConversations, remoteLongTermMemory, syncFailures>>
idVars     == <<msgCount, ltmCount>>
cycleVars  == <<pc, sel, selStart, markStart, markedCount, result, runs, cronDue>>
histVars   == <<selCount, anyFailure, crashedSel>>
vars == <<now, configVars, tableVars, remoteVars, currentConversationId, idVars,
          cycleVars, restarts, histVars, response, storeCalls>>

(***************************************************************************)
(* Bounds of the model.                                                    *)
(***************************************************************************)
DayLen      == 2   \* ticks per local day
MaxTime     == 2   \* the clock stops here
MaxMsgs     == 2   \* messages stored in one behaviour
MaxRuns     == 2   \* consolidate() invocations in one behaviour
MaxRestarts == 1   \* process restarts in one behaviour
MaxSyncFailures == 1   \* failed exports to the remote store in one behaviour

MsgIds   == 1..MaxMsgs
Triggers == {"cron", "tool"}
Roles    == {"user"}
Contents == {"Db"}

(***************************************************************************)
(* Clock helpers.                                                          *)
(***************************************************************************)
\* new Date(); setHours(0,0,0,0); getTime(): local midnight at or before t
StartOfDay(t) == t - (t % DayLen)

\* new Date().toISOString().split('T')[0]: the calendar date of t
DateOf(t) == t \div DayLen

\* (mutant) the handler does not test for the key
MutKeyNotTested == TRUE

\* OPENAI_API_KEY is truthy: the test of the consolidate_memory handler
KeyConfigured == apiKey # ""

\* the scheduled trigger is installed (main(), storage.ts 1205)
CronInstalled == enableConsolidation /\ apiKey # ""

Ids(rows) == {r.id : r \in rows}

(***************************************************************************)
(* StorageManager: the queries and updates, as functions of the table.     *)
(***************************************************************************)
\* getTodaysConversations: WHERE timestamp >= ? AND consolidated = FALSE,
\* with ? the local midnight of the moment of the call
getTodaysConversations(rows, t) ==
  {r \in rows : r.timestamp >= StartOfDay(t) /\ ~r.consolidated}

\* (mutant) the row is inserted as already consolidated
MutStoredConsolidated(id, t, role, content, conversationId) ==
  [id |-> id, timestamp |-> t, role |-> role, content |-> content,
   conversation_id |-> conversationId, consolidated |-> TRUE]

\* the row storeMessage inserts: consolidated takes the column default FALSE
NewMessageRow(id, t, role, content, conversationId) ==
  [id |-> id, timestamp |-> t, role |-> role, content |-> content,
   conversation_id |-> conversationId, consolidated |-> FALSE]

\* markConversationsAsConsolidated, the COUNT(*) query
CountUnconsolidated(rows, start) ==
  Cardinality({r \in rows : r.timestamp >= start /\ ~r.consolidated})

\* (mutant) the UPDATE as the README describes it: the rows are removed
MutMarkDeletes(rows, start) ==
  {r \in rows : ~(r.timestamp >= start /\ ~r.consolidated)}

\* markConversationsAsConsolidated, the UPDATE: SET consolidated = TRUE
\* WHERE timestamp >= ? AND consolidated = FALSE
markConversationsAsConsolidated(rows, start) ==
  {IF r.timestamp >= start /\ ~r.consolidated
     THEN [r EXCEPT !.consolidated = TRUE] ELSE r : r \in rows}

\* (mutant) the DELETE spares the rows that are consolidated
MutClearKeepsConsolidated(rows) == {r \in rows : r.consolidated}

\* clearShortTermMemory: DELETE FROM conversations
clearShortTermMemory(rows) == {}

\* the row storeLongTermMemory inserts
NewLongTermRow(id, t, m) ==
  [id |-> id, timestamp |-> t, summary |-> m.summary, topics |-> m.topics,
   key_insights |-> m.keyInsights, consolidated_from |-> m.consolidatedFrom]

(***************************************************************************)
(* searchConversations.  A filter field that is absent is Absent; the code *)
(* tests each field for truthiness, so 0 and "" count as absent too.       *)
(***************************************************************************)
Absent == -1
NoFilters == [query |-> "", topics |-> <<>>, startDate |-> Absent, endDate |-> Absent,
              limit |-> Absent]
TruthyNumber(n) == n # Absent /\ n # 0

\* the characters of the texts of the model
Chars(s) ==
  CASE s = "Db" -> <<"D", "b">>
    [] s = "db" -> <<"d", "b">>
    [] s = "D"  -> <<"D">>
    [] s = "b"  -> <<"b">>
    [] s = "x"  -> <<"x">>
    [] s = "S"  -> <<"S">>
    [] s = "k"  -> <<"k">>
    [] s = "axb" -> <<"a", "x", "b">>
    [] s = "a_b" -> <<"a", "_", "b">>
    [] s = "data" -> <<"d", "a", "t", "a">>
    [] s = "database" -> <<"d", "a", "t", "a", "b", "a", "s", "e">>
    [] OTHER    -> <<>>
\* LOWER
LowerChar(c) == CASE c = "D" -> "d" [] c = "B" -> "b" [] c = "S" -> "s" [] OTHER -> c
Lower(cs) == [i \in 1..Len(cs) |-> LowerChar(cs[i])]

\* pat occurs in text
IsSubstring(pat, text) ==
  \E i \in 0..(Len(text) - Len(pat)) :
    \A j \in 1..Len(pat) : text[i + j] = pat[j]

\* text LIKE pat: % stands for any run of characters, _ for any one character
RECURSIVE LikeMatch(_, _)
LikeMatch(text, pat) ==
  IF pat = <<>> THEN text = <<>>
  ELSE IF Head(pat) = "%"
    THEN \/ LikeMatch(text, Tail(pat))
         \/ (text # <<>> /\ LikeMatch(Tail(text), pat))
    ELSE /\ text # <<>>
         /\ (Head(pat) = "_" \/ Head(pat) = Head(text))
         /\ LikeMatch(Tail(text), Tail(pat))

\* LOWER(text) LIKE LOWER(`%${query}%`), on the characters
LikeChars(text, query) == LikeMatch(Lower(text), <<"%">> \o Lower(query) \o <<"%">>)

\* LOWER(content) LIKE LOWER(`%${query}%`)
Like(text, query) == LikeChars(Chars(text), Chars(query))

\* the WHERE clause searchConversations builds
ConversationMatches(r, filters) ==
  /\ filters.query # "" => Like(r.content, filters.query)
  /\ TruthyNumber(filters.startDate) => r.timestamp >= filters.startDate
  /\ TruthyNumber(filters.endDate) => r.timestamp <= filters.endDate

\* the rows searchConversations selects, before ORDER BY and LIMIT
searchConversationsRows(rows, filters) ==
  {r \in rows : ConversationMatches(r, filters)}

(***************************************************************************)
(* MemoryConsolidator.performConsolidation: the handling of the chat       *)
(* completion.  A JavaScript value is a record with its type t, its text s *)
(* (string, number) and its elements a (array); the value JSON.parse       *)
(* returns also carries the three properties the code reads from it.       *)
(***************************************************************************)
Value(t, s, a) == [t |-> t, s |-> s, a |-> a]
Undefined  == Value("undefined", "", <<>>)
Null       == Value("null", "", <<>>)
String(s)  == Value("string", s, <<>>)
Number(s)  == Value("number", s, <<>>)
Array(a)   == Value("array", "", a)

Parsed(t, summary, topics, keyInsights) ==
  [t |-> t, summary |-> summary, topics |-> topics, keyInsights |-> keyInsights]
Object(summary, topics, keyInsights) == Parsed("object", summary, topics, keyInsights)
\* a parsed value that is no object has none of the properties
Plain(t) == Parsed(t, Undefined, Undefined, Undefined)

\* texts a completion may carry in choices[0].message.content
NullContent == "<null>"
GoodJson    == "{\"summary\":\"S\",\"topics\":[\"db\"],\"keyInsights\":[\"k\"]}"
WrongJson   == "{\"summary\":7,\"topics\":\"db\",\"keyInsights\":null}"
PartJson    == "{\"summary\":\"\",\"topics\":[\"db\"]}"
ContentTexts == {NullContent, "", "not json", "{}", "null", "42", "[1]",
                 GoodJson, WrongJson, PartJson}

\* JSON.parse on those texts: ok = FALSE is a SyntaxError
JSONParse(text) ==
  CASE text = "{}"      -> [ok |-> TRUE, v |-> Object(Undefined, Undefined, Undefined)]
    [] text = "null"    -> [ok |-> TRUE, v |-> Plain("null")]
    [] text = "42"      -> [ok |-> TRUE, v |-> Plain("number")]
    [] text = "[1]"     -> [ok |-> TRUE, v |-> Plain("array")]
    [] text = GoodJson  -> [ok |-> TRUE, v |-> Object(String("S"), Array(<<"db">>), Array(<<"k">>))]
    [] text = WrongJson -> [ok |-> TRUE, v |-> Object(Number("7"), String("db"), Null)]
    [] text = PartJson  -> [ok |-> TRUE, v |-> Object(String(""), Array(<<"db">>), Undefined)]
    [] OTHER            -> [ok |-> FALSE, v |-> Plain("undefined")]

\* JavaScript truthiness of a value
Truthy(v) ==
  CASE v.t \in {"undefined", "null"} -> FALSE
    [] v.t = "string" -> v.s # ""
    [] v.t = "number" -> v.s # "0"
    [] OTHER -> TRUE

\* (mutant) the field is passed on whatever its shape
MutNoCoercion(v) == v

\* Array.isArray(v) ? v : []
ArrayOrEmpty(v) == IF v.t = "array" THEN v ELSE Array(<<>>)

\* a chat completion: the call rejects (fail), or resolves with choices, the
\* sequence of their message.content
Completion(fail, choices) == [fail |-> fail, choices |-> choices]
Completions ==
  {Completion(TRUE, <<>>), Completion(FALSE, <<>>)}
    \cup {Completion(FALSE, <<c>>) : c \in ContentTexts}

\* the completions the cycles of Spec receive: a rejected call, two malformed
\* responses and a well-formed one
CycleCompletions ==
  {Completion(TRUE, <<>>), Completion(FALSE, <<>>), Completion(FALSE, <<"null">>),
   Completion(FALSE, <<GoodJson>>)}

Threw == [threw |-> TRUE, summary |-> "", topics |-> Array(<<>>),
          keyInsights |-> Array(<<>>), consolidatedFrom |-> 0]

\* lines 116-140 of consolidation.ts, after the completion has resolved at time t
performConsolidation(completion, t) ==
  IF completion.fail \/ Len(completion.choices) = 0
    THEN Threw   \* the call rejected, or choices[0] is undefined: TypeError
    ELSE
      LET content == completion.choices[1]
          responseText == IF content \in {NullContent, ""} THEN "{}" ELSE content
          p == JSONParse(responseText)
          parsed == IF p.ok THEN p.v
                    ELSE Object(String("Failed to parse consolidation response"),
                                Array(<<>>), Array(<<>>))
      IN IF parsed.t \in {"null", "undefined"}
           THEN Threw   \* parsed.summary of null: TypeError, outside the try
           ELSE [threw |-> FALSE,
                 summary |-> IF Truthy(parsed.summary) THEN parsed.summary.s
                             ELSE "No summary generated",
                 topics |-> ArrayOrEmpty(parsed.topics),
                 keyInsights |-> ArrayOrEmpty(parsed.keyInsights),
                 consolidatedFrom |-> DateOf(t)]

\* consolidate hands the four fields to storeLongTermMemory, which writes the
\* elements of topics and of keyInsights with JSON.stringify
StoreArguments(m) ==
  [summary |-> m.summary, topics |-> m.topics.a, keyInsights |-> m.keyInsights.a,
   consolidatedFrom |-> m.consolidatedFrom]

(***************************************************************************)
(* MemoryConsolidator.consolidate: where the cycle goes after each step.   *)
(* "return" and "throw" end it; the other values are the awaits it is      *)
(* suspended at.                                                           *)
(***************************************************************************)
\* (mutant) the error of storeLongTermMemory is swallowed
MutSwallowStoreError(stage, ok) ==
  CASE stage = "select" -> IF ok THEN "llm" ELSE "return"
    [] stage = "llm"    -> IF ok THEN "store" ELSE "throw"
    [] stage = "store"  -> "markCount"
    [] stage = "markCount" -> "markUpdate"
    [] OTHER -> "return"

\* (mutant) the empty check after getTodaysConversations is missing
MutNoEmptyCheck(stage, ok) ==
  CASE stage = "select" -> "llm"
    [] stage = "llm"    -> IF ok THEN "store" ELSE "throw"
    [] stage = "store"  -> IF ok THEN "markCount" ELSE "throw"
    [] stage = "markCount" -> "markUpdate"
    [] OTHER -> "return"

consolidateNext(stage, ok) ==
  CASE stage = "select" -> IF ok THEN "llm" ELSE "return"   \* ok: some message was selected
    [] stage = "llm"    -> IF ok THEN "store" ELSE "throw"
    [] stage = "store"  -> IF ok THEN "markCount" ELSE "throw"
    [] stage = "markCount" -> "markUpdate"
    [] OTHER -> "return"

InFlight(c) == pc[c] # "idle"

\* (mutant) the cron callback has no catch: the rejection of consolidate()
\* is unhandled and ends the process
MutCronNoCatch == FALSE

\* the cron callback awaits consolidate() inside try/catch and logs the error
CronCallbackCatches == TRUE

\* where a cycle that threw leaves its trigger: the tool handler and the cron
\* callback both catch, and the trigger is ready for its next invocation
AfterThrow(c) == IF c = "cron" /\ ~CronCallbackCatches THEN "exited" ELSE "idle"

(***************************************************************************)
(* syncToRemote: with a remote store the two tables are exported, the      *)
(* conversations first; an export that throws is caught and logged, and    *)
(* the second export is then skipped.  outcome "fail": the first throws.   *)
(***************************************************************************)
SyncOutcomes ==
  IF storageUrl = "s3"
    THEN {"ok"} \cup (IF syncFailures < MaxSyncFailures THEN {"fail"} ELSE {})
    ELSE {"local"}

syncToRemote(outcome, rows, memories) ==
  /\ remoteConversations' =
       IF outcome = "ok" THEN rows ELSE remoteConversations
  /\ remoteLongTermMemory' =
       IF outcome = "ok" THEN memories ELSE remoteLongTermMemory
  /\ syncFailures' = IF outcome = "fail" THEN syncFailures + 1 ELSE syncFailures

\* (mutant) syncToRemote lets the error of a failed export escape to its caller
MutSyncRethrows(outcome) == outcome = "fail"

\* syncToRemote: the catch around the two exports logs the error and returns
syncToRemoteThrows(outcome) == FALSE

\* no request has been observed
NoResponse == [op |-> "none"]

\* store_memory calls that can be in flight at once
MaxCalls == 2
CallIds == 1..MaxCalls

\* a call slot with no store_memory in it
NoCall == [stage |-> "idle", conversationId |-> 0, threw |-> FALSE]

(***************************************************************************)
(* The initial state: the server has started on an empty store.            *)
(***************************************************************************)
Init ==
  /\ now = 0
  /\ storageUrl \in {"file", "s3"}
  /\ apiKey \in {"", "sk"}
  /\ enableConsolidation \in BOOLEAN
  /\ conversations = {}
  /\ longTermMemory = {}
  /\ remoteConversations = {}
  /\ remoteLongTermMemory = {}
  /\ syncFailures = 0
  /\ currentConversationId = 0
  /\ msgCount = 0
  /\ ltmCount = 0
  /\ pc = [c \in Triggers |-> "idle"]
  /\ sel = [c \in Triggers |-> {}]
  /\ selStart = [c \in Triggers |-> 0]
  /\ markStart = [c \in Triggers |-> 0]
  /\ markedCount = [c \in Triggers |-> 0]
  /\ result = [c \in Triggers |-> "none"]
  /\ runs = 0
  /\ cronDue = FALSE
  /\ restarts = 0
  /\ selCount = [i \in MsgIds |-> 0]
  /\ anyFailure = FALSE
  /\ crashedSel = {}
  /\ response = NoResponse
  /\ storeCalls = [k \in CallIds |-> NoCall]

(***************************************************************************)
(* The tool handlers of the server.                                        *)
(***************************************************************************)
\* store_memory: rotate the session when asked, then storeMessage
StoreMemory(role, content, newConversation, outcome) ==
  /\ msgCount < MaxMsgs
  /\ LET conversationId == IF newConversation THEN now ELSE currentConversationId
         row == NewMessageRow(msgCount + 1, now, role, content, conversationId)
     IN /\ currentConversationId' = conversationId
        /\ conversations' = conversations \cup {row}
        /\ syncToRemote(outcome, conversations', longTermMemory)
  /\ msgCount' = msgCount + 1
  /\ UNCHANGED <<now, response, configVars, storeCalls, longTermMemory, ltmCount, cycleVars, restarts, histVars>>

\* new_conversation
NewConversation ==
  /\ currentConversationId' = now
  /\ UNCHANGED <<now, response, configVars, storeCalls, tableVars, remoteVars, idVars, cycleVars, restarts, histVars>>

\* get_memory, get_long_term_memory, search_memory: SELECT statements only
GetMemory == UNCHANGED vars
GetLongTermMemory == UNCHANGED vars
SearchMemory == UNCHANGED vars

\* consolidate_memory without OPENAI_API_KEY: the handler throws before
\* a consolidator is made
ConsolidateMemoryNoKey ==
  /\ ~KeyConfigured
  /\ result' = [result EXCEPT !["tool"] = "error"]
  /\ UNCHANGED <<now, response, configVars, storeCalls, tableVars, remoteVars, currentConversationId, idVars,
                 pc, sel, selStart, markStart, markedCount, runs, cronDue, restarts, histVars>>

(***************************************************************************)
(* One consolidation cycle, started by the cron callback (c = "cron") or   *)
(* by consolidate_memory (c = "tool"); each action runs consolidate() from *)
(* one await to the next.                                                  *)
(***************************************************************************)
\* consolidate() up to the completion request: getTodaysConversations,
\* the empty check, getLongTermMemories(20), the prompt
StartCycle(c) ==
  /\ KeyConfigured
  /\ pc[c] = "idle"
  /\ runs < MaxRuns
  /\ c = "cron" => cronDue
  /\ LET today == getTodaysConversations(conversations, now)
         next == consolidateNext("select", today # {})
     IN /\ sel' = [sel EXCEPT ![c] = Ids(today)]
        /\ selStart' = [selStart EXCEPT ![c] = IF next = "return" THEN 0 ELSE StartOfDay(now)]
        /\ selCount' = [i \in MsgIds |->
                          IF i \in Ids(today) THEN selCount[i] + 1 ELSE selCount[i]]
        /\ pc' = [pc EXCEPT ![c] = IF next = "return" THEN "idle" ELSE next]
        /\ result' = [result EXCEPT ![c] = IF next = "return" THEN "ok" ELSE "none"]
  /\ runs' = runs + 1
  /\ cronDue' = IF c = "cron" THEN FALSE ELSE cronDue
  /\ UNCHANGED <<now, response, configVars, storeCalls, tableVars, remoteVars, currentConversationId, idVars,
                 markStart, markedCount, restarts, anyFailure, crashedSel>>

\* the completion resolves or rejects; performConsolidation returns or
\* throws; storeLongTermMemory inserts (dbOk) or throws, then syncs
Summarize(c, completion, dbOk, outcome) ==
  /\ pc[c] = "llm"
  /\ LET m == performConsolidation(completion, now)
         afterLlm == consolidateNext("llm", ~m.threw)
         next == IF afterLlm = "store" THEN consolidateNext("store", dbOk) ELSE afterLlm
     IN /\ longTermMemory' =
             IF afterLlm = "store" /\ dbOk
               THEN longTermMemory \cup {NewLongTermRow(ltmCount + 1, now, StoreArguments(m))}
               ELSE longTermMemory
        /\ ltmCount' = IF afterLlm = "store" /\ dbOk THEN ltmCount + 1 ELSE ltmCount
        /\ IF afterLlm = "store" /\ dbOk
             THEN syncToRemote(outcome, conversations, longTermMemory')
             ELSE UNCHANGED remoteVars
        /\ pc' = [pc EXCEPT ![c] = IF next = "throw" THEN AfterThrow(c) ELSE next]
        /\ result' = [result EXCEPT ![c] = IF next = "throw" THEN "error" ELSE "none"]
        /\ sel' = [sel EXCEPT ![c] = IF next = "throw" THEN {} ELSE sel[c]]
        /\ selStart' = [selStart EXCEPT ![c] = IF next = "throw" THEN 0 ELSE selStart[c]]
        /\ anyFailure' = (anyFailure \/ next = "throw")
  /\ UNCHANGED <<now, response, configVars, storeCalls, conversations, currentConversationId, msgCount,
                 markStart, markedCount, runs, cronDue, restarts,
                 selCount, crashedSel>>

\* markConversationsAsConsolidated up to its UPDATE: startOfDay, COUNT(*)
MarkCount(c) ==
  /\ pc[c] = "markCount"
  /\ markStart' = [markStart EXCEPT ![c] = StartOfDay(now)]
  /\ markedCount' = [markedCount EXCEPT ![c] = CountUnconsolidated(conversations, StartOfDay(now))]
  /\ pc' = [pc EXCEPT ![c] = consolidateNext("markCount", TRUE)]
  /\ UNCHANGED <<now, response, configVars, storeCalls, tableVars, remoteVars, currentConversationId, idVars,
                 sel, selStart, result, runs, cronDue, restarts, histVars>>

\* the UPDATE of markConversationsAsConsolidated, its sync, and the return
\* of consolidate()
MarkUpdate(c, outcome) ==
  /\ pc[c] = "markUpdate"
  /\ conversations' = markConversationsAsConsolidated(conversations, markStart[c])
  /\ syncToRemote(outcome, conversations', longTermMemory)
  /\ pc' = [pc EXCEPT ![c] = "idle"]
  /\ result' = [result EXCEPT ![c] = "ok"]
  /\ sel' = [sel EXCEPT ![c] = {}]
  /\ selStart' = [selStart EXCEPT ![c] = 0]
  /\ markStart' = [markStart EXCEPT ![c] = 0]
  /\ markedCount' = [markedCount EXCEPT ![c] = 0]
  /\ UNCHANGED <<now, response, configVars, storeCalls, longTermMemory, currentConversationId, idVars,
                 runs, cronDue, restarts, histVars>>

(***************************************************************************)
(* The rest of the environment.                                            *)
(***************************************************************************)
\* StorageManager.clearShortTermMemory
ClearShortTermMemory(outcome) ==
  /\ conversations # {}
  /\ conversations' = clearShortTermMemory(conversations)
  /\ syncToRemote(outcome, conversations', longTermMemory)
  /\ UNCHANGED <<now, response, configVars, storeCalls, longTermMemory, currentConversationId, idVars,
                 cycleVars, restarts, histVars>>

\* the clock advances by a millisecond; reaching local midnight makes the
\* cron callback due (schedule '0 0 * * *'), and it starts at that instant
TickTo(last) ==
  /\ now < last
  /\ ~cronDue
  /\ (CronInstalled /\ (now + 1) % DayLen = 0) => runs < MaxRuns
  /\ now' = now + 1
  /\ cronDue' = (CronInstalled /\ (now + 1) % DayLen = 0)
  /\ UNCHANGED <<response, configVars, storeCalls, tableVars, remoteVars, currentConversationId, idVars,
                 pc, sel, selStart, markStart, markedCount, result, runs, restarts, histVars>>

Tick == TickTo(MaxTime)

\* the process ends (graceful: close() syncs first) and the server starts
\* again: initialize() and setupDatabase(), a new session id, no cycle in
\* flight.  A local database file keeps both tables; a remote store gives an
\* empty in-memory database into which only conversations.parquet is loaded,
\* when it can be read.
Restart(graceful, outcome, loadOk) ==
  /\ restarts < MaxRestarts
  /\ restarts' = restarts + 1
  /\ IF graceful
       THEN syncToRemote(outcome, conversations, longTermMemory)
       ELSE UNCHANGED remoteVars
  /\ conversations' =
       IF storageUrl = "s3"
         THEN (IF loadOk THEN remoteConversations' ELSE {})
         ELSE conversations
  /\ longTermMemory' = IF storageUrl = "s3" THEN {} ELSE longTermMemory
  /\ currentConversationId' = now
  /\ pc' = [c \in Triggers |-> "idle"]
  /\ sel' = [c \in Triggers |-> {}]
  /\ selStart' = [c \in Triggers |-> 0]
  /\ markStart' = [c \in Triggers |-> 0]
  /\ markedCount' = [c \in Triggers |-> 0]
  /\ result' = [c \in Triggers |-> "none"]
  /\ cronDue' = FALSE
  /\ anyFailure' = (anyFailure \/ \E c \in Triggers : InFlight(c))
  /\ crashedSel' = crashedSel \cup UNION {sel[c] : c \in {d \in Triggers : pc[d] = "markCount"}}
  /\ UNCHANGED <<now, response, configVars, storeCalls, idVars, runs, selCount>>

Next ==
  \/ \E role \in Roles, content \in Contents, newConversation \in BOOLEAN,
        outcome \in SyncOutcomes :
       StoreMemory(role, content, newConversation, outcome)
  \/ NewConversation
  \/ GetMemory
  \/ GetLongTermMemory
  \/ SearchMemory
  \/ ConsolidateMemoryNoKey
  \/ \E c \in Triggers : StartCycle(c)
  \/ \E c \in Triggers, completion \in CycleCompletions, dbOk \in BOOLEAN,
        outcome \in SyncOutcomes :
       Summarize(c, completion, dbOk, outcome)
  \/ \E c \in Triggers : MarkCount(c)
  \/ \E c \in Triggers, outcome \in SyncOutcomes : MarkUpdate(c, outcome)
  \/ \E outcome \in SyncOutcomes : ClearShortTermMemory(outcome)
  \/ Tick
  \/ \E graceful \in BOOLEAN, outcome \in SyncOutcomes, loadOk \in BOOLEAN :
       Restart(graceful, outcome, loadOk)

Spec == Init /\ [][Next]_vars

(***************************************************************************)
(* get_memory and clearShortTermMemory as requests with a reply.  RecentSpec *)
(* starts from any table the server can have written and answers requests; *)
(* response holds the last reply.                                          *)
(***************************************************************************)
MaxRows == 3   \* messages in a table of RecentSpec

Min(a, b) == IF a <= b THEN a ELSE b
Max(a, b) == IF a >= b THEN a ELSE b

\* the row of a result set as the methods return it (ConversationEntry)
ConversationEntry(r) ==
  [id |-> r.id, timestamp |-> r.timestamp, role |-> r.role, content |-> r.content,
   conversationId |-> r.conversation_id]

\* the orders in which ORDER BY timestamp ASC can return the rows: rows of
\* one timestamp come in any order
OrderedAscending(rows) ==
  {q \in [1..Cardinality(rows) -> rows] :
     /\ \A i, j \in DOMAIN q : i < j => (q[i] # q[j] /\ q[i].timestamp <= q[j].timestamp)}

SessionIds(rows) == {r.conversation_id : r \in rows}
SessionRows(rows, s) == {r \in rows : r.conversation_id = s}
\* MAX(timestamp) of a session
MaxTimestamp(rows, s) ==
  CHOOSE t \in {r.timestamp : r \in SessionRows(rows, s)} :
    \A r \in SessionRows(rows, s) : r.timestamp <= t

\* the first statement of getLastNConversations, read as the n sessions in
\* the order of their latest message: the sets of ids it can return
LastSessions(rows, n) ==
  {S \in SUBSET SessionIds(rows) :
     /\ Cardinality(S) = Min(n, Cardinality(SessionIds(rows)))
     /\ \A a \in S, b \in SessionIds(rows) \ S :
          MaxTimestamp(rows, a) >= MaxTimestamp(rows, b)}

\* getLastNConversations: the statement is rejected by the database (its
\* ORDER BY MAX(timestamp) has no GROUP BY) and the method throws, or it
\* returns the messages of the chosen sessions by ascending timestamp
getLastNConversations(rows, n) ==
  {[threw |-> TRUE, messages |-> <<>>]}
    \cup {[threw |-> FALSE,
           messages |-> [i \in DOMAIN q |-> ConversationEntry(q[i])]] :
            q \in UNION {OrderedAscending({r \in rows : r.conversation_id \in S}) :
                           S \in LastSessions(rows, n)}}

\* a destructuring default ({ limit = 10 } = args): the default stands in for
\* an absent argument only
WithDefault(x, d) == IF x = Absent THEN d ELSE x

\* get_memory: Math.min(Math.max(conversation_count, 1), 10)
ClampConversationCount(n) == Min(Max(n, 1), 10)

\* get_long_term_memory: Math.min(Math.max(limit, 1), 50)
ClampLongTermLimit(n) == Min(Max(n, 1), 50)

\* (mutant) the limit of search_memory has no lower bound
MutNoLowerBound(n) == Min(n, 100)

\* search_memory: Math.min(Math.max(limit, 1), 100)
ClampSearchLimit(n) == Min(Max(n, 1), 100)

\* the body of a reply that carries none
NoBody == [none |-> TRUE]

\* (mutant) the catch block reports the error in a successful result
MutCatchReturnsSuccess(threw, error, body) ==
  [success |-> TRUE, isError |-> FALSE, error |-> error, body |-> body]

\* the try/catch of the tool handler: a case that returns gives
\* { success: true, ...body }; an exception of any case, or an unknown tool
\* name, gives { success: false, error } with isError: true
CallToolResult(threw, error, body) ==
  IF threw
    THEN [success |-> FALSE, isError |-> TRUE, error |-> error, body |-> NoBody]
    ELSE [success |-> TRUE, isError |-> FALSE, error |-> "", body |-> body]

\* the message of an error the database raises
DatabaseError == "<database error>"

\* get_memory: the Map from conversationId to its messages, filled in the
\* order of the messages; its entries come out in insertion order
RECURSIVE conversationMap(_, _)
conversationMap(messages, groups) ==
  IF messages = <<>> THEN groups
  ELSE LET m == Head(messages)
           at == {i \in DOMAIN groups : groups[i].conversationId = m.conversationId}
           msg == [role |-> m.role, content |-> m.content, timestamp |-> m.timestamp]
       IN conversationMap(Tail(messages),
            IF at = {}
              THEN Append(groups, [conversationId |-> m.conversationId,
                                   messageCount |-> 1, messages |-> <<msg>>])
              ELSE LET i == CHOOSE k \in at : TRUE
                   IN [groups EXCEPT ![i].messageCount = @ + 1,
                                     ![i].messages = Append(@, msg)])

\* the tables the server can have written: ids in insertion order, the clock
\* and the session id never go back, a session id is the clock value of its
\* rotation
RowShapes == {<<c, t, f>> : c \in 0..MaxTime, t \in 0..MaxTime, f \in BOOLEAN}
WrittenTables ==
  UNION {{{[NewMessageRow(i, q[i][2], "user", "Db", q[i][1]) EXCEPT !.consolidated = q[i][3]] :
            i \in 1..k} :
          q \in {q \in [1..k -> RowShapes] :
                   /\ \A i \in 1..k : q[i][1] <= q[i][2]
                   /\ \A i, j \in 1..k :
                        i < j => (q[i][1] <= q[j][1] /\ q[i][2] <= q[j][2])}} :
         k \in 0..MaxRows}

\* a long-term table of one row
OneLongTermRow ==
  {NewLongTermRow(1, 0, [summary |-> "S", topics |-> <<"db">>, keyInsights |-> <<"k">>,
                         consolidatedFrom |-> 0])}

\* the server at rest on the store at url, with the given API key: no cycle,
\* nothing exported
AtRestWith(url, key) ==
  /\ storageUrl = url /\ apiKey = key /\ enableConsolidation = FALSE
  /\ remoteConversations = {} /\ remoteLongTermMemory = {} /\ syncFailures = 0
  /\ pc = [c \in Triggers |-> "idle"]
  /\ sel = [c \in Triggers |-> {}]
  /\ selStart = [c \in Triggers |-> 0]
  /\ markStart = [c \in Triggers |-> 0]
  /\ markedCount = [c \in Triggers |-> 0]
  /\ result = [c \in Triggers |-> "none"]
  /\ runs = 0 /\ cronDue = FALSE /\ restarts = 0
  /\ selCount = [i \in MsgIds |-> 0]
  /\ anyFailure = FALSE /\ crashedSel = {}
  /\ response = NoResponse
  /\ storeCalls = [k \in CallIds |-> NoCall]

\* the server at rest: no key, no cycle, a local database file, the clock at
\* its last value
AtRest ==
  /\ AtRestWith("file", "")
  /\ now = MaxTime /\ currentConversationId = MaxTime
  /\ msgCount = 0 /\ ltmCount = 0

restVars == <<now, configVars, storeCalls, remoteVars, currentConversationId, idVars, cycleVars,
              restarts, histVars>>

RecentInit ==
  /\ AtRest
  /\ conversations \in WrittenTables
  /\ longTermMemory \in {{}, OneLongTermRow}

\* get_memory with conversation_count = n
GetMemoryCall(n) ==
  /\ LET count == ClampConversationCount(WithDefault(n, 2))
     IN \E got \in getLastNConversations(conversations, count) :
          response' = [op |-> "get_memory", n |-> n, passed |-> count,
                       threw |-> got.threw,
                       messages |-> got.messages,
                       conversations |-> conversationMap(got.messages, <<>>),
                       result |-> CallToolResult(got.threw, DatabaseError,
                                    [conversationCount |->
                                       Len(conversationMap(got.messages, <<>>))])]
  /\ UNCHANGED <<tableVars, restVars>>

\* clearShortTermMemory with its return value: COUNT(*), DELETE, sync
ClearShortTermMemoryCall ==
  /\ conversations' = clearShortTermMemory(conversations)
  /\ \E outcome \in SyncOutcomes :
       /\ syncToRemote(outcome, conversations', longTermMemory)
       /\ response' = [op |-> "clear", threw |-> syncToRemoteThrows(outcome),
                       count |-> Cardinality(conversations)]
  /\ UNCHANGED <<now, configVars, storeCalls, longTermMemory, currentConversationId, idVars,
                 cycleVars, restarts, histVars>>

ConversationCounts == {0, 1, 2, 11}

RecentNext ==
  \/ \E n \in ConversationCounts : GetMemoryCall(n)
  \/ ClearShortTermMemoryCall

RecentSpec == RecentInit /\ [][RecentNext]_vars

(***************************************************************************)
(* searchConversations and searchLongTermMemories as requests with a       *)
(* reply.  SearchSpec starts from a table of messages or of long-term      *)
(* entries and answers one search, whose reply response holds: a search    *)
(* changes no table, so a later search sees what a first one would.        *)
(***************************************************************************)
MaxEntries == 2   \* rows in a table of SearchSpec

\* JSON.stringify of a list of strings (the texts of the model need no
\* escapes): the text the topics and key_insights columns hold
RECURSIVE QuotedElements(_)
QuotedElements(list) ==
  IF list = <<>> THEN <<>>
  ELSE <<"\"">> \o Chars(Head(list)) \o <<"\"">>
         \o (IF Tail(list) = <<>> THEN <<>> ELSE <<",">> \o QuotedElements(Tail(list)))
JSONStringify(list) == <<"[">> \o QuotedElements(list) \o <<"]">>

\* the WHERE clause searchLongTermMemories builds
LongTermMatches(r, filters) ==
  /\ filters.query # "" =>
       \/ Like(r.summary, filters.query)
       \/ LikeChars(JSONStringify(r.key_insights), Chars(filters.query))
  /\ Len(filters.topics) > 0 =>
       \E i \in DOMAIN filters.topics :
         LikeChars(JSONStringify(r.topics),
                   <<"\"">> \o Chars(filters.topics[i]) \o <<"\"">>)
  /\ TruthyNumber(filters.startDate) => r.timestamp >= filters.startDate
  /\ TruthyNumber(filters.endDate) => r.timestamp <= filters.endDate

\* the rows searchLongTermMemories selects, before ORDER BY and LIMIT
searchLongTermMemoriesRows(rows, filters) ==
  {r \in rows : LongTermMatches(r, filters)}

\* the orders in which ORDER BY timestamp DESC can return the rows
OrderedDescending(rows) ==
  {q \in [1..Cardinality(rows) -> rows] :
     /\ \A i, j \in DOMAIN q : i < j => (q[i] # q[j] /\ q[i].timestamp >= q[j].timestamp)}

\* (mutant) the LIMIT clause is never added
MutNoLimit(q, limit) == q

\* if (filters.limit) sql += ` LIMIT ?`
Limited(q, limit) ==
  IF TruthyNumber(limit) THEN SubSeq(q, 1, Min(limit, Len(q))) ELSE q

\* the row of a result set as searchLongTermMemories returns it: the two
\* lists are parsed back from their text
LongTermMemory(r) ==
  [id |-> r.id, timestamp |-> r.timestamp, summary |-> r.summary, topics |-> r.topics,
   keyInsights |-> r.key_insights, consolidatedFrom |-> r.consolidated_from]

\* searchConversations: the result lists it can return
searchConversations(rows, filters) ==
  {[i \in DOMAIN Limited(q, filters.limit) |-> ConversationEntry(q[i])] :
     q \in OrderedDescending(searchConversationsRows(rows, filters))}

\* searchLongTermMemories: the result lists it can return
searchLongTermMemories(rows, filters) ==
  {[i \in DOMAIN Limited(q, filters.limit) |-> LongTermMemory(q[i])] :
     q \in OrderedDescending(searchLongTermMemoriesRows(rows, filters))}

\* the filters of the searches
DateBounds == {Absent} \cup 0..(MaxTime + 1)
SearchFilterSet ==
  [query : {"", "db", "a_b"}, topics : {<<>>, <<"db">>, <<"data">>},
   startDate : DateBounds, endDate : DateBounds, limit : {Absent, 0, 1}]

\* the tables of SearchSpec: up to MaxEntries rows, ids in insertion order,
\* timestamps of a clock that is positive and never goes back
Timestamps == 1..MaxTime
MessageShapes == {<<c, t>> : c \in {"Db", "axb"}, t \in Timestamps}
MessageTables ==
  UNION {{{NewMessageRow(i, q[i][2], "user", q[i][1], 0) : i \in 1..k} :
          q \in {q \in [1..k -> MessageShapes] :
                   \A i, j \in 1..k : i < j => q[i][2] <= q[j][2]}} :
         k \in 0..MaxEntries}
EntryShapes ==
  {<<m, t>> : m \in [summary : {"S", "axb"}, topics : {<<"database">>, <<"db">>},
                     keyInsights : {<<"Db", "k">>}, consolidatedFrom : {0}],
              t \in Timestamps}
EntryTables ==
  UNION {{{NewLongTermRow(i, q[i][2], q[i][1]) : i \in 1..k} :
          q \in {q \in [1..k -> EntryShapes] :
                   \A i, j \in 1..k : i < j => q[i][2] <= q[j][2]}} :
         k \in 0..MaxEntries}

SearchInit ==
  /\ AtRest
  /\ \/ conversations \in MessageTables /\ longTermMemory = {}
     \/ conversations = {} /\ longTermMemory \in EntryTables

\* search_memory, the short-term side
SearchConversationsCall(filters) ==
  /\ response = NoResponse
  /\ \E out \in searchConversations(conversations, filters) :
       response' = [op |-> "searchConversations", filters |-> filters, out |-> out]
  /\ UNCHANGED <<tableVars, restVars>>

\* search_memory, the long-term side
SearchLongTermMemoriesCall(filters) ==
  /\ response = NoResponse
  /\ \E out \in searchLongTermMemories(longTermMemory, filters) :
       response' = [op |-> "searchLongTermMemories", filters |-> filters, out |-> out]
  /\ UNCHANGED <<tableVars, restVars>>

SearchNext ==
  \/ \E filters \in SearchFilterSet : SearchConversationsCall(filters)
  \/ \E filters \in SearchFilterSet : SearchLongTermMemoriesCall(filters)

SearchSpec == SearchInit /\ [][SearchNext]_vars

(***************************************************************************)
(* The writing methods of StorageManager called directly on a remote-      *)
(* backed store.  StorageSpec starts from an empty database on s3; every   *)
(* method ends with syncToRemote, whose export may fail.                   *)
(***************************************************************************)
MaxMemories == 2

MemoryIds == 1..MaxMemories

\* the arguments of storeLongTermMemory and of updateLongTermMemory
StoredFields ==
  [summary |-> "S", topics |-> <<"db">>, keyInsights |-> <<"k">>, consolidatedFrom |-> 0]

UpdatedFields ==
  [summary |-> "axb", topics |-> <<"data">>, keyInsights |-> <<>>, consolidatedFrom |-> 1]

\* updateLongTermMemory, the UPDATE ... WHERE id = ?
updateLongTermMemory(memories, id, t, m) ==
  {IF e.id = id THEN NewLongTermRow(id, t, m) ELSE e : e \in memories}

StorageInit ==
  /\ AtRestWith("s3", "")
  /\ now = MaxTime /\ currentConversationId = MaxTime
  /\ msgCount = 0 /\ ltmCount = 0
  /\ conversations = {}
  /\ longTermMemory = {}

storageRest == <<now, configVars, storeCalls, currentConversationId, cycleVars, restarts, histVars>>

\* storeMessage: INSERT, then syncToRemote
StoreMessageCall(content, outcome) ==
  /\ msgCount < MaxMsgs
  /\ msgCount' = msgCount + 1
  /\ conversations' = conversations \cup
       {NewMessageRow(msgCount', now, "user", content, currentConversationId)}
  /\ syncToRemote(outcome, conversations', longTermMemory)
  /\ response' = [op |-> "storeMessage", threw |-> syncToRemoteThrows(outcome),
                  id |-> msgCount']
  /\ UNCHANGED <<storageRest, longTermMemory, ltmCount>>

\* storeLongTermMemory: INSERT, then syncToRemote
StoreLongTermMemoryCall(outcome) ==
  /\ ltmCount < MaxMemories
  /\ ltmCount' = ltmCount + 1
  /\ longTermMemory' = longTermMemory \cup {NewLongTermRow(ltmCount', now, StoredFields)}
  /\ syncToRemote(outcome, conversations, longTermMemory')
  /\ response' = [op |-> "storeLongTermMemory", threw |-> syncToRemoteThrows(outcome),
                  id |-> ltmCount']
  /\ UNCHANGED <<storageRest, conversations, msgCount>>

\* updateLongTermMemory: UPDATE, then syncToRemote
UpdateLongTermMemoryCall(id, outcome) ==
  /\ longTermMemory' = updateLongTermMemory(longTermMemory, id, now, UpdatedFields)
  /\ syncToRemote(outcome, conversations, longTermMemory')
  /\ response' = [op |-> "updateLongTermMemory", threw |-> syncToRemoteThrows(outcome),
                  id |-> id]
  /\ UNCHANGED <<storageRest, conversations, idVars>>

\* markConversationsAsConsolidated: COUNT(*), UPDATE, then syncToRemote
MarkConversationsAsConsolidatedCall(outcome) ==
  /\ conversations' = markConversationsAsConsolidated(conversations, StartOfDay(now))
  /\ syncToRemote(outcome, conversations', longTermMemory)
  /\ response' = [op |-> "markConversationsAsConsolidated",
                  threw |-> syncToRemoteThrows(outcome),
                  count |-> CountUnconsolidated(conversations, StartOfDay(now))]
  /\ UNCHANGED <<storageRest, longTermMemory, idVars>>

StorageNext ==
  \/ \E content \in Contents, outcome \in SyncOutcomes : StoreMessageCall(content, outcome)
  \/ \E outcome \in SyncOutcomes : StoreLongTermMemoryCall(outcome)
  \/ \E id \in MemoryIds, outcome \in SyncOutcomes : UpdateLongTermMemoryCall(id, outcome)
  \/ \E outcome \in SyncOutcomes : MarkConversationsAsConsolidatedCall(outcome)
  \/ ClearShortTermMemoryCall

StorageSpec == StorageInit /\ [][StorageNext]_vars

(***************************************************************************)
(* The tool handler with its replies.  ToolSpec starts from an empty local *)
(* database, with or without an API key, and answers tool calls one at a   *)
(* time, all within one millisecond of the clock; consolidate_memory runs  *)
(* its cycle to the end within the call.                                   *)
(***************************************************************************)
\* (mutant) the entries are answered from a copy taken when the store was
\* opened, which is empty
MutStaleRead(rows, limit) == {<<>>}

\* getLongTermMemories: ORDER BY timestamp DESC LIMIT ?
getLongTermMemories(rows, limit) ==
  {[i \in 1..Min(limit, Len(q)) |-> LongTermMemory(q[i])] : q \in OrderedDescending(rows)}

\* memory_type of search_memory: absent, the three values of the schema, and
\* a value outside the schema
NoMemoryType == "<undefined>"
MemoryTypes == {NoMemoryType, "short-term", "long-term", "both", "other"}

\* (mutant) the long-term side is searched whatever memory_type says
MutAlwaysLongTerm(memoryType) == TRUE

\* if (memory_type === 'short-term' || memory_type === 'both')
SearchesShortTerm(memoryType) == memoryType \in {"short-term", "both"}

\* if (memory_type === 'long-term' || memory_type === 'both')
SearchesLongTerm(memoryType) == memoryType \in {"long-term", "both"}

\* a side of the results object: absent, or { count, rows }
NotSearched == [present |-> FALSE, count |-> 0, rows |-> <<>>]
Searched(rows) == [present |-> TRUE, count |-> Len(rows), rows |-> rows]

\* the counts and limits a caller sends: absent, negative, in range, above
\* every maximum (Absent is -1, so the negative count is another number)
CallerCounts == {Absent, -5, 1, 200}

ToolInit ==
  /\ \E key \in {"", "sk"} : AtRestWith("file", key)
  /\ now = MaxTime /\ currentConversationId = MaxTime
  /\ msgCount = 0 /\ ltmCount = 0
  /\ conversations = {} /\ longTermMemory = {}

toolRest == <<configVars, storeCalls, remoteVars, cycleVars, restarts, histVars>>

\* store_memory
StoreMemoryCall(content, newConversation, dbOk) ==
  /\ msgCount < MaxMsgs
  /\ LET conversationId == IF newConversation THEN now ELSE currentConversationId
     IN /\ currentConversationId' = conversationId
        /\ conversations' =
             IF dbOk
               THEN conversations \cup
                      {NewMessageRow(msgCount + 1, now, "user", content, conversationId)}
               ELSE conversations
        /\ response' = [op |-> "store_memory", threw |-> ~dbOk,
                        result |-> CallToolResult(~dbOk, DatabaseError,
                                     [conversationId |-> conversationId,
                                      timestamp |-> now])]
  /\ msgCount' = IF dbOk THEN msgCount + 1 ELSE msgCount
  /\ UNCHANGED <<now, longTermMemory, ltmCount, toolRest>>

\* new_conversation
NewConversationCall ==
  /\ currentConversationId' = now
  /\ response' = [op |-> "new_conversation", threw |-> FALSE,
                  result |-> CallToolResult(FALSE, "", [conversationId |-> now])]
  /\ UNCHANGED <<now, tableVars, idVars, toolRest>>

\* get_long_term_memory with limit
GetLongTermMemoryCall(limit, dbOk) ==
  /\ LET count == ClampLongTermLimit(WithDefault(limit, 10))
     IN \E memories \in getLongTermMemories(longTermMemory, count) :
          response' = [op |-> "get_long_term_memory", limit |-> limit, passed |-> count,
                       threw |-> ~dbOk,
                       result |-> CallToolResult(~dbOk, DatabaseError,
                                    [count |-> Len(memories), memories |-> memories])]
  /\ UNCHANGED <<now, tableVars, currentConversationId, idVars, toolRest>>

\* consolidate_memory: the key test, then MemoryConsolidator.consolidate
ConsolidateMemoryCall(completion, dbOk) ==
  /\ LET todayConversations == getTodaysConversations(conversations, now)
         m == performConsolidation(completion, now)
         afterSelect == IF KeyConfigured
                          THEN consolidateNext("select", todayConversations # {})
                          ELSE "throw"
         afterLlm == IF afterSelect = "llm"
                       THEN consolidateNext("llm", ~m.threw) ELSE afterSelect
         afterStore == IF afterLlm = "store"
                         THEN consolidateNext("store", dbOk) ELSE afterLlm
         error == CASE ~KeyConfigured -> "OpenAI API key not configured"
                    [] afterSelect = "llm" /\ m.threw -> "<collaborator error>"
                    [] OTHER -> DatabaseError
     IN /\ longTermMemory' =
             IF afterLlm = "store" /\ dbOk
               THEN longTermMemory \cup
                      {NewLongTermRow(ltmCount + 1, now, StoreArguments(m))}
               ELSE longTermMemory
        /\ ltmCount' = IF afterLlm = "store" /\ dbOk THEN ltmCount + 1 ELSE ltmCount
        /\ conversations' =
             IF afterStore = "markCount"
               THEN markConversationsAsConsolidated(conversations, StartOfDay(now))
               ELSE conversations
        /\ response' = [op |-> "consolidate_memory", threw |-> afterStore = "throw",
                        result |-> CallToolResult(afterStore = "throw", error, NoBody)]
  /\ UNCHANGED <<now, currentConversationId, msgCount, toolRest>>

\* search_memory with query, memory_type and limit
SearchMemoryCall(query, memoryType, limit, dbOk) ==
  /\ LET type == IF memoryType = NoMemoryType THEN "both" ELSE memoryType
         searchFilters == [NoFilters EXCEPT !.query = query,
                             !.limit = ClampSearchLimit(WithDefault(limit, 20))]
         short == SearchesShortTerm(type)
         long == SearchesLongTerm(type)
         threw == ~dbOk /\ (short \/ long)
     IN \E conversationRows \in searchConversations(conversations, searchFilters),
           memories \in searchLongTermMemories(longTermMemory, searchFilters) :
          response' =
            [op |-> "search_memory", query |-> query, memoryType |-> memoryType,
             limit |-> limit,
             passed |-> searchFilters.limit, threw |-> threw,
             called |-> IF threw
                          THEN (IF short THEN {"searchConversations"}
                                         ELSE {"searchLongTermMemories"})
                          ELSE (IF short THEN {"searchConversations"} ELSE {})
                                 \cup (IF long THEN {"searchLongTermMemories"} ELSE {}),
             result |-> CallToolResult(threw, DatabaseError,
                          [shortTermResults |->
                             IF short THEN Searched(conversationRows) ELSE NotSearched,
                           longTermResults |->
                             IF long THEN Searched(memories) ELSE NotSearched])]
  /\ UNCHANGED <<now, tableVars, currentConversationId, idVars, toolRest>>

\* a call of a tool the server does not have: the default case throws
UnknownToolCall ==
  /\ response' = [op |-> "unknown", threw |-> TRUE,
                  result |-> CallToolResult(TRUE, "Unknown tool", NoBody)]
  /\ UNCHANGED <<now, tableVars, currentConversationId, idVars, toolRest>>

ToolNext ==
  \/ \E content \in Contents, newConversation \in BOOLEAN, dbOk \in BOOLEAN :
       StoreMemoryCall(content, newConversation, dbOk)
  \/ \E n \in CallerCounts : GetMemoryCall(n)
  \/ NewConversationCall
  \/ \E limit \in CallerCounts, dbOk \in BOOLEAN : GetLongTermMemoryCall(limit, dbOk)
  \/ \E completion \in Completions, dbOk \in BOOLEAN :
       ConsolidateMemoryCall(completion, dbOk)
  \/ \E query \in {"", "db"}, memoryType \in MemoryTypes, limit \in CallerCounts,
        dbOk \in BOOLEAN : SearchMemoryCall(query, memoryType, limit, dbOk)
  \/ UnknownToolCall

ToolSpec == ToolInit /\ [][ToolNext]_vars

(***************************************************************************)
(* store_memory as the two steps its await makes of it, so that other      *)
(* calls run in between.  SessionSpec starts from a local database without *)
(* messages and lets store_memory calls, new_conversation calls and the    *)
(* clock interleave.                                                       *)
(***************************************************************************)
\* role values a caller sends: one of the schema's enum and one outside it
CallerRoles == {"user", "tool"}

SessionInit ==
  /\ AtRestWith("file", "")
  /\ now = 0 /\ currentConversationId = 0
  /\ msgCount = 0 /\ ltmCount = 0
  /\ conversations = {}
  /\ longTermMemory \in {{}, OneLongTermRow}

sessionRest == <<configVars, remoteVars, cycleVars, restarts, histVars>>

\* store_memory up to the await of storeMessage: the session is rotated when
\* asked, currentConversationId is read as the argument, storeMessage takes
\* its timestamp and issues the INSERT (dbOk: the INSERT succeeds)
StoreMemoryBegin(k, role, content, newConversation, dbOk) ==
  /\ storeCalls[k].stage = "idle"
  /\ msgCount < MaxMsgs
  /\ LET conversationId == IF newConversation THEN now ELSE currentConversationId
     IN /\ currentConversationId' = conversationId
        /\ conversations' =
             IF dbOk
               THEN conversations \cup
                      {NewMessageRow(msgCount + 1, now, role, content, conversationId)}
               ELSE conversations
        /\ storeCalls' = [storeCalls EXCEPT ![k] =
                            [stage |-> "insert", conversationId |-> conversationId,
                             threw |-> ~dbOk]]
  /\ msgCount' = IF dbOk THEN msgCount + 1 ELSE msgCount
  /\ UNCHANGED <<now, response, longTermMemory, ltmCount, sessionRest>>

\* store_memory after the await: the reply reads currentConversationId and
\* Date.now() again, or the catch block answers
StoreMemoryReturn(k) ==
  /\ storeCalls[k].stage = "insert"
  /\ response' = [op |-> "store_memory", threw |-> storeCalls[k].threw,
                  stored |-> storeCalls[k].conversationId,
                  result |-> CallToolResult(storeCalls[k].threw, DatabaseError,
                               [conversationId |-> currentConversationId,
                                timestamp |-> now])]
  /\ storeCalls' = [storeCalls EXCEPT ![k] = NoCall]
  /\ UNCHANGED <<now, tableVars, currentConversationId, idVars, sessionRest>>

SessionNext ==
  \/ \E k \in CallIds, role \in CallerRoles, content \in Contents,
        newConversation \in BOOLEAN, dbOk \in BOOLEAN :
       StoreMemoryBegin(k, role, content, newConversation, dbOk)
  \/ \E k \in CallIds : StoreMemoryReturn(k)
  \/ NewConversationCall
  \/ Tick

SessionSpec == SessionInit /\ [][SessionNext]_vars

(***************************************************************************)
(* The scheduled trigger over two nights.  CronSpec starts the server on a *)
(* local database with every configuration of key and switch, and runs     *)
(* store_memory, the scheduled cycle and the clock up to the second        *)
(* midnight.                                                               *)
(***************************************************************************)
MaxCronTime == 4   \* the clock of CronSpec stops here

CronInit ==
  /\ Init
  /\ storageUrl = "file"

CronNext ==
  \/ \E content \in Contents, outcome \in SyncOutcomes :
       StoreMemory("user", content, FALSE, outcome)
  \/ StartCycle("cron")
  \/ \E completion \in CycleCompletions, dbOk \in BOOLEAN, outcome \in SyncOutcomes :
       Summarize("cron", completion, dbOk, outcome)
  \/ MarkCount("cron")
  \/ \E outcome \in SyncOutcomes : MarkUpdate("cron", outcome)
  \/ TickTo(MaxCronTime)

CronSpec == CronInit /\ [][CronNext]_vars

(***************************************************************************)
(* The claims.                                                             *)
(***************************************************************************)
Marking(c) == pc[c] \in {"markCount", "markUpdate"}

\* C1: a cycle reaches markConversationsAsConsolidated only in a step in
\* which storeLongTermMemory has inserted its row; a cycle that throws at the
\* completion or at storeLongTermMemory ends with result "error", and neither
\* that step nor the select step before it changes any row of conversations.
C1_MarkOnlyAfterStore ==
  [][\A c \in Triggers :
       /\ (Marking(c)' /\ ~Marking(c)) =>
            /\ pc[c] = "llm"
            /\ ltmCount' = ltmCount + 1
            /\ \E e \in longTermMemory' : e.id = ltmCount' /\ e \notin longTermMemory
       /\ (pc[c] = "llm" /\ pc'[c] = "idle" /\ restarts' = restarts) =>
            /\ result'[c] = "error"
            /\ conversations' = conversations
            /\ longTermMemory' = longTermMemory
       /\ (pc[c] = "idle" /\ pc'[c] = "llm") => conversations' = conversations
    ]_vars

\* C1 witness: one cycle has thrown and left an unconsolidated message, while
\* another has stored its long-term row and is about to mark
C1_Witness ==
  \E c, d \in Triggers :
    /\ result[c] = "error" /\ apiKey # ""
    /\ pc[d] = "markCount" /\ longTermMemory # {}
    /\ \E r \in conversations : ~r.consolidated

\* C2 (as claimed): whenever a cycle starts after a crash that hit a cycle
\* between storeLongTermMemory and markConversationsAsConsolidated, it selects
\* every message of the crashed cycle that is still stored and unconsolidated.
C2_AtLeastOnce ==
  [][runs' = runs + 1 =>
       \A r \in conversations :
         (r.id \in crashedSel /\ ~r.consolidated) =>
           \E c \in Triggers : pc[c] = "idle" /\ pc'[c] = "llm" /\ r.id \in sel'[c]
    ]_vars

\* C3 (as claimed): two cycles are never in flight at the same time.
C3_MutualExclusion ==
  \A c, d \in Triggers : (InFlight(c) /\ InFlight(d)) => c = d

\* C4 (as claimed): as long as no step has failed, every message has been
\* selected by at most one cycle.
C4_ExactlyOnce ==
  ~anyFailure => \A i \in MsgIds : selCount[i] <= 1

\* C5 (as claimed): no step turns the consolidated flag of a stored message
\* from true to false.
C5_FlagNeverReverts ==
  [][\A r \in conversations, q \in conversations' :
       (r.id = q.id /\ r.consolidated) => q.consolidated
    ]_vars

\* A message is stranded when it is unconsolidated and older than today's
\* local midnight: every later getTodaysConversations and every later
\* markConversationsAsConsolidated takes its startTimestamp from a clock that
\* only advances, so neither reaches the message again.
Stranded(r) == ~r.consolidated /\ r.timestamp < StartOfDay(now)

\* C6 (as claimed): with the scheduled trigger installed and fired at every
\* midnight so far, the process never restarted and no step failed, once
\* every started cycle has returned no message is stranded.
C6_NightlyCoversEveryMessage ==
  (/\ CronInstalled /\ restarts = 0 /\ ~anyFailure
   /\ ~cronDue /\ \A c \in Triggers : ~InFlight(c))
    => \A r \in conversations : ~Stranded(r)

\* C7 (as claimed): whatever completion the call resolves with, when the
\* insert works the cycle stores a long-term row and goes on to mark.
C7_MalformedNeverAborts ==
  [][\A c \in Triggers :
       (\E completion \in Completions, outcome \in SyncOutcomes :
          ~completion.fail /\ Summarize(c, completion, TRUE, outcome))
         => (pc'[c] = "markCount" /\ ltmCount' = ltmCount + 1)
    ]_vars

\* C8: a consolidate() that finds no unconsolidated message of today returns
\* normally in the same step: no cycle goes on to the completion request, no
\* row of either table (local or remote) changes, and the result is "ok".
C8_EmptyIsNoOp ==
  [][(runs' = runs + 1 /\ getTodaysConversations(conversations, now) = {}) =>
       /\ pc' = pc
       /\ conversations' = conversations
       /\ longTermMemory' = longTermMemory
       /\ remoteConversations' = remoteConversations
       /\ remoteLongTermMemory' = remoteLongTermMemory
       /\ ltmCount' = ltmCount
       /\ \E c \in Triggers :
            result'[c] = "ok" /\ \A d \in Triggers \ {c} : result'[d] = result[d]
    ]_vars

\* C8 witness: consolidate() has run twice on a store whose only messages
\* are unconsolidated ones of an earlier day, nothing failed, and no
\* long-term row was ever written
C8_Witness ==
  /\ runs = 2 /\ ~anyFailure /\ restarts = 0
  /\ ltmCount = 0 /\ longTermMemory = {}
  /\ conversations # {}
  /\ \A r \in conversations : r.timestamp < StartOfDay(now) /\ ~r.consolidated
  /\ selCount = [i \in MsgIds |-> 0]
  /\ \A c \in Triggers : ~InFlight(c)
  /\ \E c \in Triggers : result[c] = "ok"

\* the steps of the operations C9 lists
ListedOperation ==
  \/ \E role \in Roles, content \in Contents, newConversation \in BOOLEAN,
        outcome \in SyncOutcomes :
       StoreMemory(role, content, newConversation, outcome)
  \/ NewConversation
  \/ GetMemory
  \/ GetLongTermMemory
  \/ SearchMemory
  \/ ConsolidateMemoryNoKey
  \/ \E c \in Triggers : StartCycle(c)
  \/ \E c \in Triggers, completion \in CycleCompletions, dbOk \in BOOLEAN,
        outcome \in SyncOutcomes :
       Summarize(c, completion, dbOk, outcome)
  \/ \E c \in Triggers : MarkCount(c)
  \/ \E c \in Triggers, outcome \in SyncOutcomes : MarkUpdate(c, outcome)

C10_ClearedAfterConsolidation ==
  \A r \in conversations :
    r.consolidated => r \notin searchConversationsRows(conversations, NoFilters)

\* C11 (as claimed): a step other than a crash keeps every long-term entry;
\* the steps include clearShortTermMemory, the steps of later cycles, and a
\* close() whose export succeeds followed by a start that can read the remote
\* store.
C11_LongTermNeverDeleted ==
  [][(\/ restarts' = restarts
      \/ \E outcome \in SyncOutcomes \ {"fail"} : Restart(TRUE, outcome, TRUE))
       => \A e \in longTermMemory : \E q \in longTermMemory' : q.id = e.id
    ]_vars

\* C19: without OPENAI_API_KEY no consolidate() ever starts: no cycle leaves
\* idle, nothing is selected, no long-term row is written and no message is
\* marked; the consolidate_memory handler ends with an error in one step that
\* changes neither table nor the remote copies.
C19_NoKeyNoCycle ==
  [][apiKey = "" =>
       /\ \A c \in Triggers : pc'[c] = "idle"
       /\ runs' = runs /\ sel' = sel /\ selCount' = selCount
       /\ ltmCount' = ltmCount /\ longTermMemory' = longTermMemory
       /\ \A r \in conversations' : ~r.consolidated
       /\ result'["cron"] = "none" /\ result'["tool"] \in {"none", "error"}
       /\ (result'["tool"] = "error" /\ result["tool"] # "error") =>
            /\ conversations' = conversations
            /\ remoteConversations' = remoteConversations
            /\ remoteLongTermMemory' = remoteLongTermMemory
    ]_vars

\* C19 witness: consolidate_memory has failed for want of the key while an
\* unconsolidated message of today was waiting
C19_Witness ==
  /\ apiKey = "" /\ result["tool"] = "error"
  /\ getTodaysConversations(conversations, now) # {}

\* C20 (as claimed): store_memory with new_conversation = true, called after
\* the millisecond the process started in, makes a session id that differs
\* from the current one and from the session id of every stored message.
C20_FreshSessionId ==
  [][\A role \in Roles, content \in Contents, outcome \in SyncOutcomes :
       (restarts = 0 /\ now > 0 /\ StoreMemory(role, content, TRUE, outcome)) =>
         /\ currentConversationId' # currentConversationId
         /\ \A r \in conversations : r.conversation_id # currentConversationId'
    ]_vars

\* C12 (as claimed): a get_memory(n) with n in 1..10 that returns messages
\* returns exactly the messages of n sessions none of which is less recently
\* active than a session left out (all sessions when there are fewer than
\* n), and in each session of the reply the timestamps strictly ascend.
C12_RecentSessionsExact ==
  (response.op = "get_memory" /\ response.n \in 1..10 /\ ~response.threw) =>
    /\ \E S \in LastSessions(conversations, response.n) :
         {response.messages[i].id : i \in DOMAIN response.messages}
           = Ids({r \in conversations : r.conversation_id \in S})
    /\ \A g \in DOMAIN response.conversations :
         \A i, j \in DOMAIN response.conversations[g].messages :
           i < j => response.conversations[g].messages[i].timestamp
                      < response.conversations[g].messages[j].timestamp

\* C13 (as claimed): the sessions of a get_memory reply are listed most
\* recently active first: a session listed earlier has a latest message at
\* least as recent as a session listed later.
C13_MostRecentSessionFirst ==
  (response.op = "get_memory" /\ ~response.threw) =>
    \A i, j \in DOMAIN response.conversations :
      i < j => MaxTimestamp(conversations, response.conversations[i].conversationId)
                 >= MaxTimestamp(conversations, response.conversations[j].conversationId)

\* C18: clearShortTermMemory returns the number of rows the table held and
\* leaves the table empty, whatever the consolidated flags were, and leaves the
\* long-term table as it was; a clearShortTermMemory that follows one returns
\* 0, and a get_memory that follows one returns no message, whatever its n.
C18_ClearRemovesAll ==
  [][/\ (response'.op = "clear" /\ response' # response) =>
          /\ response'.count = Cardinality(conversations)
          /\ conversations' = {}
          /\ longTermMemory' = longTermMemory
     /\ (response.op = "clear" /\ response'.op = "clear") => response'.count = 0
     /\ (response.op = "clear" /\ response'.op = "get_memory") =>
          /\ response'.messages = <<>>
          /\ response'.conversations = <<>>
    ]_vars

\* C18 witness: a clear has emptied a full table and returned its size, and
\* the long-term row is still there
C18_Witness ==
  /\ response.op = "clear" /\ response.count = MaxRows
  /\ conversations = {} /\ longTermMemory # {}

\* the ids of a result list
OutIds(out) == {out[i].id : i \in DOMAIN out}

\* the topic predicate as claimed: some requested topic is a case-insensitive
\* substring of some stored topic
TopicSubstring(e, topics) ==
  \E i \in DOMAIN topics, j \in DOMAIN e.topics :
    IsSubstring(Lower(Chars(topics[i])), Lower(Chars(e.topics[j])))

\* the text predicate as claimed: the query is a case-insensitive substring
\* of the summary or of some element of keyInsights
TextSubstring(e, query) ==
  \/ IsSubstring(Lower(Chars(query)), Lower(Chars(e.summary)))
  \/ \E j \in DOMAIN e.key_insights :
       IsSubstring(Lower(Chars(query)), Lower(Chars(e.key_insights[j])))

\* the date predicate as claimed: every bound that is supplied is applied,
\* inclusively
WithinBounds(r, filters) ==
  /\ filters.startDate # Absent => r.timestamp >= filters.startDate
  /\ filters.endDate # Absent => r.timestamp <= filters.endDate

\* C14 (as claimed): searchLongTermMemories with topics as its only filter
\* returns an entry exactly when some requested topic is a case-insensitive
\* substring of one of the entry's topics.
C14_TopicSubstring ==
  (/\ response.op = "searchLongTermMemories"
   /\ Len(response.filters.topics) > 0 /\ response.filters.query = ""
   /\ response.filters.startDate = Absent /\ response.filters.endDate = Absent
   /\ response.filters.limit = Absent)
    => \A e \in longTermMemory :
         e.id \in OutIds(response.out) <=> TopicSubstring(e, response.filters.topics)

\* C15 (as claimed): every entry searchLongTermMemories returns for a query
\* and a topics filter satisfies the text predicate, the topic predicate and
\* every date bound that was supplied.
C15_FilterConjunction ==
  (/\ response.op = "searchLongTermMemories"
   /\ Len(response.filters.topics) > 0 /\ response.filters.query # "")
    => \A e \in longTermMemory :
         e.id \in OutIds(response.out) =>
           /\ TextSubstring(e, response.filters.query)
           /\ TopicSubstring(e, response.filters.topics)
           /\ WithinBounds(e, response.filters)

\* C16 (as claimed): a search of either kind with date bounds as its only
\* filters returns exactly the rows whose timestamp is within the supplied
\* bounds, both inclusive, whatever the bounds' values; so it returns nothing
\* when startDate > endDate.
C16_InclusiveBounds ==
  (/\ response.op \in {"searchConversations", "searchLongTermMemories"}
   /\ Len(response.filters.topics) = 0 /\ response.filters.query = ""
   /\ response.filters.limit = Absent)
    => LET rows == IF response.op = "searchConversations"
                     THEN conversations ELSE longTermMemory
       IN OutIds(response.out) = Ids({r \in rows : WithinBounds(r, response.filters)})

\* the rows that match the filters of the reply
Matching ==
  IF response.op = "searchConversations"
    THEN searchConversationsRows(conversations, response.filters)
    ELSE searchLongTermMemoriesRows(longTermMemory, response.filters)

C21_AppendOrder ==
  (response.op = "get_memory" /\ ~response.threw) =>
    \A i, j \in DOMAIN response.messages :
      (/\ i < j
       /\ response.messages[i].conversationId = response.messages[j].conversationId)
        => response.messages[i].id < response.messages[j].id

\* C28 (as claimed): a search with a query as its only filter returns a row
\* exactly when the query is a case-insensitive substring of the content
\* (messages), or of the summary or of one element of keyInsights (long-term
\* entries).
C28_TextSubstring ==
  (/\ response.op \in {"searchConversations", "searchLongTermMemories"}
   /\ response.filters.query # "" /\ Len(response.filters.topics) = 0
   /\ response.filters.startDate = Absent /\ response.filters.endDate = Absent
   /\ response.filters.limit = Absent)
    => /\ response.op = "searchConversations" =>
            \A r \in conversations :
              r.id \in OutIds(response.out)
                <=> IsSubstring(Lower(Chars(response.filters.query)), Lower(Chars(r.content)))
       /\ response.op = "searchLongTermMemories" =>
            \A e \in longTermMemory :
              e.id \in OutIds(response.out) <=> TextSubstring(e, response.filters.query)

\* C23 (as claimed): right after storeLongTermMemory has failed in a cycle,
\* every message that cycle selected and that is still stored and
\* unconsolidated is one a consolidate() started at that moment selects.
C23_EligibleAfterStoreFailure ==
  [][\A c \in Triggers :
       (\E outcome \in SyncOutcomes :
          Summarize(c, Completion(FALSE, <<GoodJson>>), FALSE, outcome))
         => \A r \in conversations' :
              (r.id \in sel[c] /\ ~r.consolidated)
                => r \in getTodaysConversations(conversations', now')
    ]_vars

\* the ids of the rows a step flips from unconsolidated to consolidated
Flipped ==
  {r.id : r \in {x \in conversations :
                   /\ ~x.consolidated
                   /\ \E y \in conversations' : y.id = x.id /\ y.consolidated}}

\* the UPDATE step of cycle c
MarkStep(c) == pc[c] = "markUpdate" /\ pc'[c] = "idle" /\ restarts' = restarts

\* C29 (as claimed): every message the mark step of a cycle flips is one
\* that cycle selected.
C29_OnlySelectedAreMarked ==
  [][\A c \in Triggers : MarkStep(c) => Flipped \subseteq sel[c]]_vars

\* C30 (as claimed): when the messages a cycle selected are still stored and
\* unconsolidated and no other unconsolidated message has a timestamp in
\* the window of its select step, its mark step flips exactly the messages it
\* selected.
C30_SameWindow ==
  [][\A c \in Triggers :
       (/\ MarkStep(c)
        /\ \A i \in sel[c] : \E r \in conversations : r.id = i /\ ~r.consolidated
        /\ \A r \in conversations :
             (~r.consolidated /\ r.timestamp >= selStart[c]) => r.id \in sel[c])
         => Flipped = sel[c]
    ]_vars

\* C22: on a remote-backed store, a call of storeMessage, storeLongTermMemory,
\* updateLongTermMemory, markConversationsAsConsolidated or clearShortTermMemory
\* whose export to the remote fails still returns without throwing, its local
\* write is in place after the call, and the remote copies are left as they were.
C22_SyncFailureKeepsWrite ==
  [][syncFailures' = syncFailures + 1 =>
       /\ ~response'.threw
       /\ remoteConversations' = remoteConversations
       /\ remoteLongTermMemory' = remoteLongTermMemory
       /\ response'.op = "storeMessage" =>
            \E r \in conversations' \ conversations : r.id = response'.id
       /\ response'.op = "storeLongTermMemory" =>
            \E e \in longTermMemory' \ longTermMemory : e.id = response'.id
       /\ response'.op = "updateLongTermMemory" =>
            /\ {e.id : e \in longTermMemory'} = {e.id : e \in longTermMemory}
            /\ \A e \in longTermMemory' :
                 e.id = response'.id => e = NewLongTermRow(e.id, now, UpdatedFields)
       /\ response'.op = "markConversationsAsConsolidated" =>
            /\ Ids(conversations') = Ids(conversations)
            /\ getTodaysConversations(conversations', now') = {}
       /\ response'.op = "clear" => conversations' = {}]_vars

\* an update whose export failed: the local entry is rewritten, the remote
\* copy still holds the entry as it was stored
C22_Witness ==
  /\ syncFailures = 1
  /\ response.op = "updateLongTermMemory" /\ ~response.threw
  /\ NewLongTermRow(response.id, now, UpdatedFields) \in longTermMemory
  /\ NewLongTermRow(response.id, now, StoredFields) \in remoteLongTermMemory

\* C24: every tool call whose handler throws is answered with a failure
\* result (success false, isError true, a message that is not empty), and no
\* reply is a failure result and a success result at once.
C24_StructuredFailure ==
  response.op # "none" =>
    /\ response.threw =>
         /\ ~response.result.success
         /\ response.result.isError
         /\ response.result.error # ""
    /\ response.result.success <=> ~response.result.isError
    /\ response.result.success => ~response.threw

\* consolidate_memory with a key, a message to summarise and a collaborator
\* whose call fails: the reply is the failure result, nothing was written
C24_Witness ==
  /\ response.op = "consolidate_memory" /\ response.threw
  /\ response.result = CallToolResult(TRUE, "<collaborator error>", NoBody)
  /\ getTodaysConversations(conversations, now) # {}
  /\ longTermMemory = {}

\* C25: a search_memory that returns fills shortTermResults only for
\* memory_type 'short-term', longTermResults only for 'long-term', both for
\* 'both' and for an absent memory_type, and runs the store query of a side
\* only if that side is requested.
C25_OnlyRequestedSides ==
  response.op = "search_memory" =>
    LET type == IF response.memoryType = NoMemoryType THEN "both" ELSE response.memoryType
        body == response.result.body
    IN /\ type = "short-term" => response.called \subseteq {"searchConversations"}
       /\ type = "long-term" => response.called \subseteq {"searchLongTermMemories"}
       /\ ~response.threw =>
            /\ type = "short-term" =>
                 /\ body.shortTermResults.present /\ ~body.longTermResults.present
                 /\ response.called = {"searchConversations"}
            /\ type = "long-term" =>
                 /\ body.longTermResults.present /\ ~body.shortTermResults.present
                 /\ response.called = {"searchLongTermMemories"}
            /\ type = "both" =>
                 /\ body.shortTermResults.present /\ body.longTermResults.present
                 /\ response.called = {"searchConversations", "searchLongTermMemories"}

\* a short-term search over a store that holds a long-term entry too: the
\* message is returned, the long-term side is absent
C25_Witness ==
  /\ response.op = "search_memory" /\ response.memoryType = "short-term"
  /\ ~response.threw
  /\ response.result.body.shortTermResults.count > 0
  /\ ~response.result.body.longTermResults.present
  /\ longTermMemory # {}

\* C26: get_memory passes a session count in [1,10], get_long_term_memory a
\* limit in [1,50] and search_memory a limit in [1,100], whatever number the
\* caller sends, and 2, 10 and 20 when the caller sends none; no list of a
\* reply is longer than the number passed.
C26_CountsClamped ==
  /\ response.op = "get_memory" =>
       /\ response.passed \in 1..10
       /\ response.n = Absent => response.passed = 2
       /\ Len(response.conversations) <= response.passed
  /\ response.op = "get_long_term_memory" =>
       /\ response.passed \in 1..50
       /\ response.limit = Absent => response.passed = 10
       /\ ~response.threw => Len(response.result.body.memories) <= response.passed
  /\ response.op = "search_memory" =>
       /\ response.passed \in 1..100
       /\ response.limit = Absent => response.passed = 20
       /\ ~response.threw =>
            /\ Len(response.result.body.shortTermResults.rows) <= response.passed
            /\ Len(response.result.body.longTermResults.rows) <= response.passed

\* a search with a negative limit over two stored messages: 1 is passed and
\* one message comes back
C26_Witness ==
  /\ response.op = "search_memory" /\ response.limit = -5 /\ ~response.threw
  /\ response.passed = 1
  /\ Cardinality(conversations) = 2
  /\ response.result.body.shortTermResults.count = 1

\* C27: the entry a consolidate_memory call writes has lists as topics and
\* key_insights for every completion: the lists of the response where it has
\* lists, the empty list where the field is absent or of another shape.
C27_ListsCoerced ==
  [][longTermMemory' # longTermMemory =>
     \A completion \in Completions, dbOk \in BOOLEAN :
       ConsolidateMemoryCall(completion, dbOk) =>
         LET m == performConsolidation(completion, now)
             content == completion.choices[1]
         IN /\ m.topics.t = "array" /\ m.keyInsights.t = "array"
            /\ \E e \in longTermMemory' \ longTermMemory :
                 /\ e.topics = m.topics.a /\ e.key_insights = m.keyInsights.a
                 /\ e.topics \in {<<>>, <<"db">>} /\ e.key_insights \in {<<>>, <<"k">>}
                 /\ content = WrongJson => (e.topics = <<>> /\ e.key_insights = <<>>)
                 /\ content = PartJson => (e.topics = <<"db">> /\ e.key_insights = <<>>)
                 /\ content = GoodJson => (e.topics = <<"db">> /\ e.key_insights = <<"k">>)]_vars

\* the entry written from a response whose topics is a string and whose
\* keyInsights is null
C27_Witness ==
  /\ response.op = "consolidate_memory" /\ ~response.threw
  /\ \E e \in longTermMemory :
       e.summary = "7" /\ e.topics = <<>> /\ e.key_insights = <<>>

\* C31: the count markConversationsAsConsolidated returns (the result of its
\* COUNT(*)) is the number of messages its UPDATE turns from unconsolidated
\* to consolidated, whatever store_memory calls and other mark calls run
\* between the two statements.
C31_CountIsFlipped ==
  [][\A c \in Triggers : MarkStep(c) => markedCount[c] = Cardinality(Flipped)]_vars

\* C32: a cycle that selected messages and returns without error has written
\* exactly one long-term entry, whose consolidatedFrom names the date at which
\* the cycle was invoked, and at its return every message it selected that is
\* still stored is consolidated and so outside the selection of a next cycle.
C32_CycleEffect ==
  [][\A c \in Triggers :
       /\ (pc[c] = "llm" /\ pc'[c] = "markCount") =>
            /\ Cardinality(longTermMemory' \ longTermMemory) = 1
            /\ \A e \in longTermMemory' \ longTermMemory :
                 e.consolidated_from = DateOf(selStart[c])
       /\ MarkStep(c) =>
            /\ \A r \in conversations' : r.id \in sel[c] => r.consolidated
            /\ Ids(getTodaysConversations(conversations', now')) \cap sel[c] = {}]_vars

\* C33: the conversationId in the reply of a successful store_memory is the
\* session id under which the message of that call was written, whatever
\* new_conversation and store_memory calls run while the call is in flight.
C33_ReplyNamesStoredSession ==
  (response.op = "store_memory" /\ ~response.threw) =>
    response.result.body.conversationId = response.stored

C36_RotationInMemoryOnly ==
  [][NewConversationCall =>
       /\ conversations' = conversations /\ longTermMemory' = longTermMemory
       /\ remoteConversations' = remoteConversations
       /\ remoteLongTermMemory' = remoteLongTermMemory
       /\ msgCount' = msgCount /\ ltmCount' = ltmCount
       /\ \A r \in conversations' : r.conversation_id # currentConversationId']_vars

\* C37: a store_memory whose INSERT fails adds no message and leaves the
\* current session id as it was before the call, also with new_conversation
\* set; its reply is a failure.
C37_FailedStoreChangesNothing ==
  [][/\ \A k \in CallIds, role \in CallerRoles, content \in Contents,
           newConversation \in BOOLEAN :
          StoreMemoryBegin(k, role, content, newConversation, FALSE) =>
            /\ conversations' = conversations
            /\ currentConversationId' = currentConversationId
     /\ \A k \in CallIds :
          (StoreMemoryReturn(k) /\ storeCalls[k].threw) =>
            (~response'.result.success /\ response'.result.isError)]_vars

\* C34: on a remote-backed store, an operation that exports to the remote
\* leaves both remote files equal to the local tables, and after close and
\* an initialize that can read the remote, both local tables equal the
\* remote files as last written.
C34_MirrorAndReload ==
  [][storageUrl = "s3" =>
       /\ (/\ restarts' = restarts
           /\ syncFailures' = syncFailures
           /\ <<remoteConversations, remoteLongTermMemory>>' #
                <<remoteConversations, remoteLongTermMemory>>) =>
            /\ remoteConversations' = conversations'
            /\ remoteLongTermMemory' = longTermMemory'
       /\ \A graceful \in BOOLEAN, outcome \in SyncOutcomes :
            Restart(graceful, outcome, TRUE) =>
              /\ conversations' = remoteConversations'
              /\ longTermMemory' = remoteLongTermMemory']_vars

\* the elements of a list
RangeOf(q) == {q[i] : i \in DOMAIN q}

\* C38: get_memory, get_long_term_memory and search_memory change neither
\* table, nor the remote copies, nor the current session id, and what they
\* return is read from the tables as they are when the call runs: every row
\* returned is a row stored at that moment, and the rows written by earlier
\* calls are all there up to the limit passed.
C38_QueriesReadOnlyAndFresh ==
  [][response'.op \in {"get_memory", "get_long_term_memory", "search_memory"} =>
       /\ conversations' = conversations /\ longTermMemory' = longTermMemory
       /\ remoteConversations' = remoteConversations
       /\ remoteLongTermMemory' = remoteLongTermMemory
       /\ currentConversationId' = currentConversationId
       /\ (response'.op = "get_memory" /\ ~response'.threw) =>
            /\ RangeOf(response'.messages) \subseteq
                 {ConversationEntry(r) : r \in conversations}
            /\ Cardinality(SessionIds(conversations)) <= response'.passed =>
                 Len(response'.messages) = Cardinality(conversations)
       /\ (response'.op = "get_long_term_memory" /\ ~response'.threw) =>
            /\ RangeOf(response'.result.body.memories) \subseteq
                 {LongTermMemory(r) : r \in longTermMemory}
            /\ Len(response'.result.body.memories) =
                 Min(response'.passed, Cardinality(longTermMemory))
       /\ (response'.op = "search_memory" /\ ~response'.threw) =>
            LET short == response'.result.body.shortTermResults
                long == response'.result.body.longTermResults
            IN /\ RangeOf(short.rows) \subseteq
                    {ConversationEntry(r) : r \in conversations}
               /\ RangeOf(long.rows) \subseteq {LongTermMemory(r) : r \in longTermMemory}
               /\ (short.present /\ response'.query = "") =>
                    short.count = Min(response'.passed, Cardinality(conversations))
               /\ (long.present /\ response'.query = "") =>
                    long.count = Min(response'.passed, Cardinality(longTermMemory))]_vars

\* get_long_term_memory after two consolidate_memory calls have each written
\* an entry: both entries are returned
C38_Witness ==
  /\ response.op = "get_long_term_memory" /\ ~response.threw
  /\ Cardinality(longTermMemory) = 2
  /\ response.result.body.count = 2
  /\ \A m \in RangeOf(response.result.body.memories) :
       \E r \in longTermMemory : m = LongTermMemory(r)

\* C39: the scheduled callback becomes due at a midnight exactly when
\* ENABLE_CONSOLIDATION is on and the API key is not empty; a scheduled cycle
\* that throws leaves the process running; and whenever the callback is due,
\* after a failed cycle as after any other, a new cycle can start.
C39_CronSurvivesFailure ==
  [][/\ (now' = now + 1 /\ now' % DayLen = 0) =>
          (cronDue' <=> (enableConsolidation /\ apiKey # ""))
     /\ cronDue' => (enableConsolidation /\ apiKey # "")
     /\ pc'["cron"] # "exited"
     /\ (result["cron"] = "error" /\ cronDue /\ pc["cron"] = "idle") =>
          ENABLED StartCycle("cron")]_vars

\* the scheduled cycle of the first night threw, and the cycle of the second
\* night is running
C39_Witness ==
  /\ anyFailure
  /\ now = 2 * DayLen
  /\ runs = 2
  /\ pc["cron"] = "llm"

====
